---- MODULE Spec2Model ----
(***************************************************************************)
(* The asynchronous AI job core of aissistant.py: the job registry         *)
(* AI_JOBS, the audit table prompt_history, the request handlers           *)
(* api_ask_ai and api_ai_status, and the background task process_ai_job    *)
(* with handle_ai_request, log_prompt and update_job_status.               *)
(*                                                                         *)
(* Flask runs with threaded=True, so every request runs on its own thread  *)
(* and every job on its own daemon thread.  One action is one step of one  *)
(* thread that touches shared state (the registry, the audit table, the    *)
(* thread table); thread-local computation is folded into the next such    *)
(* step.  A dict assignment and a dict lookup are atomic in CPython.       *)
(***************************************************************************)
EXTENDS Integers, Sequences, FiniteSets, TLC

(* ------------------------------ bounds -------------------------------- *)

\* Number of POST /api/ask-ai requests of one run.
MaxSubmits == 2

\* Request slots, numbered in the order in which the requests register.
Slots == 1..MaxSubmits

\* The values secrets.token_hex(8) can return, cut down to two tokens.
JobIds == {"a3f1", "07bc"}

\* A job id no submission has drawn yet (the slot's job_id before line 207).
NoJob == ""

\* Number of POST /api/contact requests of one run, and their threads.
MaxContacts == 2

Contacts == 1..MaxContacts

\* Number of GET /api/captcha requests of one run.
MaxCaptchas == 2

\* The values secrets.token_hex(16) can return in api_get_captcha, cut down
\* to one token.
CaptchaTokens == {"c41d"}

\* Number of /api/admin requests of one run, and their threads.
MaxAdminRequests == 2

Admins == 1..MaxAdminRequests

\* Number of successful logins of one run.
MaxLogins == 1

\* The values secrets.token_hex(16) can return in api_login, cut down to one
\* token.
SessionTokens == {"5e55"}

(* --------------------------- request bodies --------------------------- *)

\* request.json: null, a non-empty array, or an object with some of the keys.
JsonNull == [type |-> "null", keys |-> {}, prompt |-> "", context |-> ""]

JsonArray == [type |-> "array", keys |-> {}, prompt |-> "", context |-> ""]

JsonObject(ks, p, c) == [type |-> "object", keys |-> ks, prompt |-> p, context |-> c]

EmptyDict == JsonObject({}, "", "")

Bodies == {JsonNull, JsonArray, JsonObject({"prompt", "context"}, "shorten", "<h1>")}

\* Python truthiness of a JSON value: None and empty containers are falsy.
Truthy(v) == v.type = "array" \/ (v.type = "object" /\ v.keys # {})

\* `request.json or {}` (line 206).
RequestData(body) == IF Truthy(body) THEN body ELSE EmptyDict

\* data.get(key, '') raises AttributeError unless data is a dict.
IsDict(d) == d.type = "object"

DictGet(d, key, default) == IF key \in d.keys THEN d[key] ELSE default

(* ---------------------------- environment ----------------------------- *)

\* What the `claude` command line tool does when process_ai_job calls it.
ToolBehaviours == {"missing", "ok", "timeout", "nonzero", "malformed", "unexpected"}

\* What get_git_hash returns (lines 55-59): the short hash, or "unknown" where
\* git fails.
GitHeads == {"1a2b3c4", "unknown"}

\* The deployments: every behaviour of the tool beside a working git, and one
\* without git.
Environments ==
    {<<t, "1a2b3c4">> : t \in ToolBehaviours} \cup {<<"ok", g>> : g \in GitHeads}

VARIABLES
    AI_JOBS,         \* the registry: job id -> entry (line 17)
    prompt_history,  \* the audit table, in insertion order
    tool,            \* the tool's behaviour in this deployment
    git_head,        \* what get_git_hash returns in this deployment
    submitted,       \* number of submit requests that have registered
    rpc,             \* request thread of each slot: idle, registered, returned
    job_id,          \* the slot's job id (line 207)
    data,            \* the slot's payload (line 206)
    tpc,             \* background thread of each slot
    result,          \* process_ai_job's local `result`
    writes,          \* history: the registry writes under each job id
    now,             \* the clock, in seconds
    response,        \* the answer of the latest audit route request
    CAPTCHA_SESSIONS,  \* app.py line 33: captcha token -> answer and timestamp
    messages,        \* app.py's messages table, in insertion order
    contacts,        \* number of POST /api/contact requests that have arrived
    cpc,             \* thread of each contact request
    creq,            \* the contact request's body
    stored_data,     \* api_contact's local `stored_data`
    issued,          \* history: how often each captcha token was issued
    SESSIONS,        \* app.py line 30: session token -> time of last use
    logins,          \* number of successful logins
    granted,         \* history: the session tokens api_login has issued
    dead,            \* history: the tokens rejected for expiry since their issue
    admins,          \* number of /api/admin requests that have arrived
    apc,             \* thread of each /api/admin request
    areq,            \* the admin request: route, cookie, and what it met
    uploads,         \* the files of UPLOAD_DIR
    pages,           \* the .html files of web_dir: name -> content
    backups          \* the files of BACKUP_DIR

\* The sessions and the /api/admin requests of app.py, and the files.
admin_vars == << SESSIONS, logins, granted, dead, admins, apc, areq, uploads, pages, backups >>

\* The state of app.py.
app_vars ==
    << CAPTCHA_SESSIONS, messages, contacts, cpc, creq, stored_data, issued,
       admin_vars >>

\* The state outside the job core: no step of a job reads or writes it.
site_vars == << now, response, app_vars >>

vars ==
    << AI_JOBS, prompt_history, tool, git_head, submitted, rpc, job_id, data,
       tpc, result, writes, now, response, app_vars >>

(* ----------------------- handle_ai_request, pure ---------------------- *)

\* f"Context:\n{context}\n\nTask: {prompt}" if context else prompt (line 127).
full_prompt(prompt, context) ==
    IF context # "" THEN "Context:\n" \o context \o "\n\nTask: " \o prompt
    ELSE prompt

\* The fallback payload composed as the instruction of the tool is.
prompt_for_clipboard_as_full_prompt(prompt, context) == full_prompt(prompt, context)

\* f"Task: {prompt}\n\nContext HTML:\n{context}" (line 123).
prompt_for_clipboard(prompt, context) ==
    "Task: " \o prompt \o "\n\nContext HTML:\n" \o context

\* A text as the sequence of its pieces; a piece is white space or it is not.
IsSpace(piece) == piece \in {" ", "\n", "\t"}

RECURSIVE Join(_)
Join(pieces) == IF pieces = <<>> THEN "" ELSE Head(pieces) \o Join(Tail(pieces))

RECURSIVE LStrip(_)
LStrip(pieces) ==
    IF pieces = <<>> THEN <<>>
    ELSE IF IsSpace(Head(pieces)) THEN LStrip(Tail(pieces))
    ELSE pieces

RECURSIVE RStrip(_)
RStrip(pieces) ==
    IF pieces = <<>> THEN <<>>
    ELSE IF IsSpace(pieces[Len(pieces)]) THEN RStrip(SubSeq(pieces, 1, Len(pieces) - 1))
    ELSE pieces

\* str.strip() (line 151).
strip(pieces) == RStrip(LStrip(pieces))

\* The "completion" field of the tool's JSON output, for the behaviours that
\* exit zero with parseable output.
ToolCompletion(behaviour, fp) ==
    IF behaviour = "ok" THEN <<" ", "Edited: " \o fp, "\n">> ELSE <<"\n">>

\* Lines 150-160: the parsed output becomes the success result.
SuccessResult(completion) ==
    LET generated_text == Join(strip(completion))
    IN  [ success |-> TRUE,
          output |-> IF generated_text = "" THEN "No content returned from AI."
                     ELSE generated_text,
          raw |-> [completion |-> Join(completion)] ]

FailureResult(msg) == [success |-> FALSE, error |-> msg]

\* str(e) of the AttributeError that .get raises on a list.
AttributeErrorText == "'list' object has no attribute 'get'"

\* handle_ai_request after the audit insert (lines 119-172), for a dict payload
\* d and the behaviour of the tool.
handle_ai_request(d, behaviour) ==
    LET prompt == DictGet(d, "prompt", "")
        context == DictGet(d, "context", "")
    IN  CASE behaviour = "missing" ->
               [ success |-> FALSE,
                 error |-> "Claude CLI not found. Please install anthracite-cli.",
                 prompt_for_clipboard |-> prompt_for_clipboard(prompt, context) ]
          [] behaviour = "ok" ->
               SuccessResult(ToolCompletion(behaviour, full_prompt(prompt, context)))
          [] behaviour = "timeout" ->
               FailureResult("AI request timed out (45s limit).")
          [] behaviour = "nonzero" ->
               FailureResult("CLI execution failed: " \o "rate limited")
          [] behaviour = "malformed" ->
               FailureResult("Failed to parse AI response as JSON.")
          [] OTHER ->
               FailureResult("Unexpected error: " \o AttributeErrorText)

\* `result` before handle_ai_request has returned.
NoResult == [success |-> FALSE, error |-> "<unset>"]

(* ---------------------------- job registry ---------------------------- *)
\* The entries carry a time.time() timestamp as well; nothing reads it.

ProcessingEntry == [status |-> "processing"]

CompletedEntry(res) == [status |-> "completed", result |-> res]

\* ErrorEntry carrying the message inside a failure result.
ErrorEntry_with_result(msg) == [status |-> "error", result |-> FailureResult(msg)]

\* Lines 196-200: the entry of a job whose execution raised; it has an
\* `error` text and no `result`.
ErrorEntry(msg) == [status |-> "error", error |-> msg]

\* AI_JOBS[k] = e
DictSet(reg, k, e) == [x \in DOMAIN reg \cup {k} |-> IF x = k THEN e ELSE reg[x]]

NotFound == [code |-> 404, body |-> [error |-> "Job not found"]]

\* api_ai_status answering only for jobs that are over.
api_ai_status_terminal_only(reg, j) ==
    IF j \in DOMAIN reg /\ reg[j].status # "processing"
    THEN [code |-> 200, body |-> reg[j]]
    ELSE NotFound

\* GET /api/ai-status/<job_id> (lines 221-225), on the registry reg.
api_ai_status(reg, j) ==
    IF j \in DOMAIN reg THEN [code |-> 200, body |-> reg[j]] ELSE NotFound

(* ----------------------------- audit table ---------------------------- *)

Null == "NULL"

\* log_prompt leaving git_hash_before to its default.
log_prompt_no_hash(table, prompt, context, j, status, hash, ts) ==
    Append(table,
           [ id |-> Len(table) + 1, timestamp |-> ts,
             prompt |-> prompt, context |-> context,
             response |-> Null, git_hash_before |-> Null, git_hash_after |-> Null,
             job_id |-> j, job_status |-> status ])

\* The INSERT of log_prompt (lines 66-67); id is AUTOINCREMENT and no row is
\* ever deleted; timestamp defaults to CURRENT_TIMESTAMP, whole seconds
\* (line 33).
log_prompt(table, prompt, context, j, status, hash, ts) ==
    Append(table,
           [ id |-> Len(table) + 1, timestamp |-> ts,
             prompt |-> prompt, context |-> context,
             response |-> Null, git_hash_before |-> hash, git_hash_after |-> Null,
             job_id |-> j, job_status |-> status ])

\* The UPDATE of update_job_status (line 77).
update_job_status(table, j, status) ==
    [ i \in DOMAIN table |->
        IF table[i].job_id = j THEN [table[i] EXCEPT !.job_status = status]
        ELSE table[i] ]

\* "completed" if result.get('success') else "failed" (line 181).
AuditStatus(res) == IF res.success THEN "completed" ELSE "failed"

(* ------------------------------- state -------------------------------- *)

\* No audit route request has been answered yet.
NoResponse == [route |-> "none"]

\* A contact thread that has not read its request, or line 297, yet.
NoContact ==
    [ honeypot |-> "", captcha_token |-> "", math_ans |-> <<>>, fresh |-> FALSE,
      took |-> FALSE ]

NoStored == [answer |-> "", timestamp |-> 0]

\* An admin thread that has not read its request yet.
NoAdmin == [op |-> "none", cookie |-> "", valid |-> FALSE]

\* No session is open and no admin request has arrived.
SessionsIdle ==
    /\ SESSIONS = [t \in {} |-> 0]
    /\ logins = 0
    /\ granted = {}
    /\ dead = {}
    /\ admins = 0
    /\ apc = [a \in Admins |-> "idle"]
    /\ areq = [a \in Admins |-> NoAdmin]

\* No captcha is out and no contact request has arrived.
CaptchaIdle ==
    /\ CAPTCHA_SESSIONS = [t \in {} |-> NoStored]
    /\ contacts = 0
    /\ cpc = [c \in Contacts |-> "idle"]
    /\ creq = [c \in Contacts |-> NoContact]
    /\ stored_data = [c \in Contacts |-> NoStored]
    /\ issued = [t \in CaptchaTokens |-> 0]

\* app.py after its first start: init_db has created an empty messages
\* table, the upload and backup directories are empty, the site has its page.
AppIdle ==
    /\ SessionsIdle
    /\ CaptchaIdle
    /\ messages = <<>>
    /\ uploads = {}
    /\ pages = [p \in {"index.html"} |-> "<p>old</p>"]
    /\ backups = {}

Init ==
    /\ AI_JOBS = [j \in {} |-> ProcessingEntry]
    /\ prompt_history = <<>>
    /\ \E env \in Environments : tool = env[1] /\ git_head = env[2]
    /\ submitted = 0
    /\ rpc = [r \in Slots |-> "idle"]
    /\ job_id = [r \in Slots |-> NoJob]
    /\ data = [r \in Slots |-> EmptyDict]
    /\ tpc = [r \in Slots |-> "none"]
    /\ result = [r \in Slots |-> NoResult]
    /\ writes = [j \in JobIds |-> <<>>]
    /\ now = 0
    /\ response = NoResponse
    /\ AppIdle

\* The registry write of thread r under key j, with its record in the history.
RegistryWrite(r, j, entry) ==
    /\ AI_JOBS' = DictSet(AI_JOBS, j, entry)
    /\ writes' = [writes EXCEPT ![j] = Append(@, [by |-> r, status |-> entry.status])]

(* --------------------- api_ask_ai, the request thread ------------------ *)

\* secrets.token_hex(8) (line 207): any token; the registry is not consulted.
token_hex == JobIds

\* Register leaving the create write to the background thread.
Register_unregistered(r) ==
    /\ r = submitted + 1
    /\ r <= MaxSubmits
    /\ rpc[r] = "idle"
    /\ \E body \in Bodies, j \in token_hex :
         /\ data' = [data EXCEPT ![r] = RequestData(body)]
         /\ job_id' = [job_id EXCEPT ![r] = j]
    /\ submitted' = r
    /\ rpc' = [rpc EXCEPT ![r] = "registered"]
    /\ UNCHANGED << AI_JOBS, writes, prompt_history, tool, git_head, tpc, result >>
    /\ UNCHANGED site_vars

\* Lines 206-208: read the body, draw the job id, register the job.
Register(r) ==
    /\ r = submitted + 1
    /\ r <= MaxSubmits
    /\ rpc[r] = "idle"
    /\ \E body \in Bodies, j \in token_hex :
         /\ data' = [data EXCEPT ![r] = RequestData(body)]
         /\ job_id' = [job_id EXCEPT ![r] = j]
         /\ RegistryWrite(r, j, ProcessingEntry)
    /\ submitted' = r
    /\ rpc' = [rpc EXCEPT ![r] = "registered"]
    /\ UNCHANGED << prompt_history, tool, git_head, tpc, result >>
    /\ UNCHANGED site_vars

\* Lines 210-219: start the daemon thread on (job_id, data, DB_PATH) and
\* answer 202 with the job id.
StartAndReturn(r) ==
    /\ rpc[r] = "registered"
    /\ tpc' = [tpc EXCEPT ![r] = "start"]
    /\ rpc' = [rpc EXCEPT ![r] = "returned"]
    /\ UNCHANGED << AI_JOBS, prompt_history, tool, git_head, submitted, job_id, data,
                    result, writes >>
    /\ UNCHANGED site_vars

(* ------------------- process_ai_job, the job's thread ----------------- *)

\* HandleRequest with subprocess.run called without a timeout: a tool that
\* hangs never returns.
HandleRequest_no_timeout(r) ==
    /\ tpc[r] = "start"
    /\ tool # "timeout"
    /\ IF ~IsDict(data[r])
       THEN /\ tpc' = [tpc EXCEPT ![r] = "except"]
            /\ UNCHANGED << prompt_history, result >>
       ELSE /\ tpc' = [tpc EXCEPT ![r] = "update"]
            /\ result' = [result EXCEPT ![r] = handle_ai_request(data[r], tool)]
            /\ \/ prompt_history' =
                    log_prompt(prompt_history, DictGet(data[r], "prompt", ""),
                               DictGet(data[r], "context", ""), job_id[r],
                               "processing", git_head, now)
               \/ UNCHANGED prompt_history
    /\ UNCHANGED << AI_JOBS, tool, git_head, submitted, rpc, job_id, data, writes >>
    /\ UNCHANGED site_vars

\* HandleRequest with a log_prompt that lets its failure out.
HandleRequest_log_raises(r) ==
    /\ tpc[r] = "start"
    /\ IF ~IsDict(data[r])
       THEN /\ tpc' = [tpc EXCEPT ![r] = "except"]
            /\ UNCHANGED << prompt_history, result >>
       ELSE \/ /\ tpc' = [tpc EXCEPT ![r] = "update"]
               /\ result' = [result EXCEPT ![r] = handle_ai_request(data[r], tool)]
               /\ prompt_history' =
                    log_prompt(prompt_history, DictGet(data[r], "prompt", ""),
                               DictGet(data[r], "context", ""), job_id[r],
                               "processing", git_head, now)
            \/ /\ tpc' = [tpc EXCEPT ![r] = "except"]
               /\ UNCHANGED << prompt_history, result >>
    /\ UNCHANGED << AI_JOBS, tool, git_head, submitted, rpc, job_id, data, writes >>
    /\ UNCHANGED site_vars

\* Lines 177-179, the call of handle_ai_request (lines 110-172): data.get
\* raises on a non-dict payload, before anything is logged; otherwise
\* log_prompt inserts the audit row, or fails and swallows the failure (lines
\* 70-71), and the tool is called, which returns or times out.  The run
\* without a row is also the one of a module whose DB_PATH was never set
\* (line 116 skips the insert).  `result` is local to the thread, so the call
\* of the tool needs no step of its own.
HandleRequest(r) ==
    /\ tpc[r] = "start"
    /\ IF ~IsDict(data[r])
       THEN /\ tpc' = [tpc EXCEPT ![r] = "except"]
            /\ UNCHANGED << prompt_history, result >>
       ELSE /\ tpc' = [tpc EXCEPT ![r] = "update"]
            /\ result' = [result EXCEPT ![r] = handle_ai_request(data[r], tool)]
            /\ \/ prompt_history' =
                    log_prompt(prompt_history, DictGet(data[r], "prompt", ""),
                               DictGet(data[r], "context", ""), job_id[r],
                               "processing", git_head, now)
               \/ UNCHANGED prompt_history
    /\ UNCHANGED << AI_JOBS, tool, git_head, submitted, rpc, job_id, data, writes >>
    /\ UNCHANGED site_vars

\* Lines 181-182: the audit status of the outcome, best effort (lines 80-81).
UpdateStatus(r) ==
    /\ tpc[r] = "update"
    /\ \/ prompt_history' =
            update_job_status(prompt_history, job_id[r], AuditStatus(result[r]))
       \/ UNCHANGED prompt_history
    /\ tpc' = [tpc EXCEPT ![r] = "write"]
    /\ UNCHANGED << AI_JOBS, tool, git_head, submitted, rpc, job_id, data, result,
                    writes >>
    /\ UNCHANGED site_vars

\* Complete taking the registry status from result.success.
Complete_failed_is_error(r) ==
    /\ tpc[r] = "write"
    /\ RegistryWrite(r, job_id[r],
                     IF result[r].success THEN CompletedEntry(result[r])
                     ELSE ErrorEntry(result[r].error))
    /\ tpc' = [tpc EXCEPT ![r] = "done"]
    /\ UNCHANGED << prompt_history, tool, git_head, submitted, rpc, job_id, data,
                    result >>
    /\ UNCHANGED site_vars

\* Lines 184-189: the terminal write of a job whose invoker returned.
Complete(r) ==
    /\ tpc[r] = "write"
    /\ RegistryWrite(r, job_id[r], CompletedEntry(result[r]))
    /\ tpc' = [tpc EXCEPT ![r] = "done"]
    /\ UNCHANGED << prompt_history, tool, git_head, submitted, rpc, job_id, data,
                    result >>
    /\ UNCHANGED site_vars

\* Lines 190-194: the handler of a fault, first the audit status.
UpdateError(r) ==
    /\ tpc[r] = "except"
    /\ \/ prompt_history' = update_job_status(prompt_history, job_id[r], "error")
       \/ UNCHANGED prompt_history
    /\ tpc' = [tpc EXCEPT ![r] = "write_error"]
    /\ UNCHANGED << AI_JOBS, tool, git_head, submitted, rpc, job_id, data, result,
                    writes >>
    /\ UNCHANGED site_vars

\* CompleteError with a handler that only prints.
CompleteError_silent(r) ==
    /\ tpc[r] = "write_error"
    /\ tpc' = [tpc EXCEPT ![r] = "done"]
    /\ UNCHANGED << AI_JOBS, writes, prompt_history, tool, git_head, submitted, rpc,
                    job_id, data, result >>
    /\ UNCHANGED site_vars

\* Lines 196-200: the terminal write of a job whose execution raised.
CompleteError(r) ==
    /\ tpc[r] = "write_error"
    /\ RegistryWrite(r, job_id[r], ErrorEntry(AttributeErrorText))
    /\ tpc' = [tpc EXCEPT ![r] = "done"]
    /\ UNCHANGED << prompt_history, tool, git_head, submitted, rpc, job_id, data,
                    result >>
    /\ UNCHANGED site_vars

(* ------------------------ api_ai_status, a poll ----------------------- *)

\* The ids a client may ask for.
PollIds == JobIds

\* Poll through a lookup that inserts the missing key.
Poll_setdefault(j) ==
    /\ AI_JOBS' = IF j \in DOMAIN AI_JOBS THEN AI_JOBS
                  ELSE DictSet(AI_JOBS, j, ProcessingEntry)
    /\ UNCHANGED << prompt_history, tool, git_head, submitted, rpc, job_id, data,
                    tpc, result, writes >>
    /\ UNCHANGED site_vars

\* Lines 221-225: the answer is api_ai_status(AI_JOBS, j); the registry is
\* read, never written.
Poll(j) ==
    /\ AI_JOBS' = AI_JOBS
    /\ UNCHANGED << prompt_history, tool, git_head, submitted, rpc, job_id, data,
                    tpc, result, writes >>
    /\ UNCHANGED site_vars

Next ==
    \/ \E r \in Slots : Register(r)
    \/ \E r \in Slots : StartAndReturn(r)
    \/ \E r \in Slots : HandleRequest(r)
    \/ \E r \in Slots : UpdateStatus(r)
    \/ \E r \in Slots : Complete(r)
    \/ \E r \in Slots : UpdateError(r)
    \/ \E r \in Slots : CompleteError(r)
    \/ \E j \in PollIds : Poll(j)

Spec == Init /\ [][Next]_vars

\* A step of the request thread after registration, or of the job's thread.
ThreadStep(r) ==
    \/ StartAndReturn(r)
    \/ HandleRequest(r)
    \/ UpdateStatus(r)
    \/ Complete(r)
    \/ UpdateError(r)
    \/ CompleteError(r)

\* Every started thread is scheduled again and again, and the call of the
\* tool inside HandleRequest ends: it returns, or subprocess.run raises
\* TimeoutExpired after 45 seconds (line 146).
FairSpec == Spec /\ \A r \in Slots : WF_vars(ThreadStep(r))

(* ------------------------- shorthands of claims ----------------------- *)

\* The slots whose request has drawn its job id.
Registered == {r \in Slots : rpc[r] # "idle"}

\* The job ids some submission has drawn.
Issued == {job_id[r] : r \in Registered}

Terminal == {"completed", "error"}

\* Thread r made a registry write of this status under its job id.
Wrote(r, status) ==
    \E i \in DOMAIN writes[job_id[r]] :
        writes[job_id[r]][i] = [by |-> r, status |-> status]

\* The latest registry write under r's job id is r's.
LastWriter(r) ==
    /\ writes[job_id[r]] # <<>>
    /\ writes[job_id[r]][Len(writes[job_id[r]])].by = r

\* No other slot has drawn r's job id.
OwnId(r) == \A q \in Registered : q # r => job_id[q] # job_id[r]

\* The job's execution raised: data.get on a payload that is no dict.
Faulted(r) == tpc[r] \in {"except", "write_error", "done"} /\ ~IsDict(data[r])

\* The job has an audit row.
HasAuditRow(j) == \E i \in DOMAIN prompt_history : prompt_history[i].job_id = j

(* -------------------------------- C1 ---------------------------------- *)

\* C1: once the background thread of a submission exists or the submission
\* has returned its job id, GET /api/ai-status/<job_id> answers 200 with an
\* entry, never 404: the job was registered first and is never removed.
C1_RegisteredBeforeStart ==
    \A r \in Slots :
        (tpc[r] # "none" \/ rpc[r] = "returned") =>
            /\ job_id[r] \in DOMAIN AI_JOBS
            /\ api_ai_status(AI_JOBS, job_id[r]).code = 200

\* A submission has returned, its job has finished, and its entry is there.
C1_Witness ==
    \E r \in Slots :
        /\ rpc[r] = "returned"
        /\ tpc[r] = "done"
        /\ api_ai_status(AI_JOBS, job_id[r]).code = 200

(* -------------------------------- C2 ---------------------------------- *)

\* C2: for every id that no submission has drawn, GET /api/ai-status/<id>
\* answers 404 {"error": "Job not found"}, whatever submits, completions and
\* polls came before; a poll adds no entry.
C2_UnknownIdNotFound ==
    \A j \in PollIds \cup {"nope"} :
        j \notin Issued => api_ai_status(AI_JOBS, j) = NotFound

\* Every submission is over and one token was never drawn.
C2_Witness ==
    /\ submitted = MaxSubmits
    /\ \A r \in Slots : tpc[r] = "done"
    /\ \E j \in PollIds : j \notin Issued /\ api_ai_status(AI_JOBS, j).code = 404

(* -------------------------------- C3 ---------------------------------- *)

\* C3: under every job id the registry sees exactly two writes in order, the
\* create write (processing) of the submitting request and then one terminal
\* write of that job's background task, and a terminal entry never changes.
C3_CreateThenOneTerminal ==
    \A j \in JobIds :
        \/ writes[j] = <<>>
        \/ /\ Len(writes[j]) <= 2
           /\ writes[j][1].status = "processing"
           /\ Len(writes[j]) = 2 =>
                /\ writes[j][2].status \in Terminal
                /\ writes[j][2].by = writes[j][1].by
                /\ AI_JOBS[j].status = writes[j][2].status

(* -------------------------------- C4 ---------------------------------- *)

\* C4: a job whose execution raised has, once its thread is over, made the
\* write of status "error" with the description of the fault, and no write
\* of "completed"; where no later write came under its id the registry holds
\* that error entry, not "processing".
C4_FaultBecomesError ==
    \A r \in Slots :
        (Faulted(r) /\ tpc[r] = "done") =>
            /\ Wrote(r, "error")
            /\ ~Wrote(r, "completed")
            /\ LastWriter(r) => AI_JOBS[job_id[r]] = ErrorEntry(AttributeErrorText)

\* A job on a non-dict payload is over and its entry has status "error".
C4_Witness ==
    \E r \in Slots :
        /\ Faulted(r)
        /\ tpc[r] = "done"
        /\ AI_JOBS[job_id[r]].status = "error"
        /\ AI_JOBS[job_id[r]].error # ""

(* -------------------------------- C5 ---------------------------------- *)

\* The message of each failure of the invoker.
FailureMessage ==
    [ missing |-> "Claude CLI not found. Please install anthracite-cli.",
      timeout |-> "AI request timed out (45s limit).",
      nonzero |-> "CLI execution failed: rate limited",
      malformed |-> "Failed to parse AI response as JSON.",
      unexpected |-> "Unexpected error: 'list' object has no attribute 'get'" ]

\* C5: a job whose invoker returned a failure result (tool missing, timeout,
\* non-zero exit, malformed output, unexpected error) is written as status
\* "completed" with result.success = false and result.error the failure's
\* message; every write of status "error" is by a job whose execution raised.
C5_FailureResultIsCompleted ==
    /\ \A r \in Slots :
         (tpc[r] = "done" /\ IsDict(data[r]) /\ tool # "ok") =>
            /\ Wrote(r, "completed")
            /\ LastWriter(r) =>
                 /\ AI_JOBS[job_id[r]].status = "completed"
                 /\ AI_JOBS[job_id[r]].result.success = FALSE
                 /\ AI_JOBS[job_id[r]].result.error = FailureMessage[tool]
    /\ \A j \in JobIds : \A i \in DOMAIN writes[j] :
         writes[j][i].status = "error" => Faulted(writes[j][i].by)

\* A job whose tool call timed out is over and completed with success false.
C5_Witness ==
    \E r \in Slots :
        /\ tool = "timeout"
        /\ tpc[r] = "done"
        /\ AI_JOBS[job_id[r]].status = "completed"
        /\ AI_JOBS[job_id[r]].result.success = FALSE

(* -------------------------------- C6 ---------------------------------- *)

\* C6: every audit row has a job id, and whenever the background thread of
\* a job exists the audit table already holds a row of that job.
C6_AuditRowBeforeStart ==
    /\ \A i \in DOMAIN prompt_history : prompt_history[i].job_id \in JobIds
    /\ \A r \in Slots : tpc[r] # "none" => HasAuditRow(job_id[r])

(* -------------------------------- C7 ---------------------------------- *)

\* C7: under fair scheduling of the threads and a tool call that returns or
\* times out, an entry that is at "processing" reaches status "completed" or
\* "error"; none stays at "processing" for ever.
C7_EventuallyTerminal ==
    \A j \in JobIds :
        (j \in DOMAIN AI_JOBS /\ AI_JOBS[j].status = "processing")
            ~> (j \in DOMAIN AI_JOBS /\ AI_JOBS[j].status \in Terminal)

\* A job whose tool call ran into the timeout has reached its terminal entry.
C7_Witness ==
    \E r \in Slots :
        /\ tool = "timeout"
        /\ tpc[r] = "done"
        /\ LastWriter(r)
        /\ AI_JOBS[job_id[r]].status \in Terminal
        /\ Len(writes[job_id[r]]) >= 2

(* -------------------------------- C8 ---------------------------------- *)

\* The terminal entry of slot r's own payload.
OwnOutcome(r) ==
    IF IsDict(data[r]) THEN CompletedEntry(handle_ai_request(data[r], tool))
    ELSE ErrorEntry(AttributeErrorText)

\* C8: concurrent submissions get pairwise distinct job ids, no submission
\* overwrites the entry of another job, and the entry of a finished job is
\* the outcome of its own payload.
C8_DistinctIdsOwnResults ==
    /\ \A r, q \in Registered : r # q => job_id[r] # job_id[q]
    /\ \A r \in Slots : tpc[r] = "done" => AI_JOBS[job_id[r]] = OwnOutcome(r)

(* -------------------------------- C9 ---------------------------------- *)

\* Slot r's submit has returned, no submission has registered since r did and
\* no request is under way: a get of r's job id now is the immediate one.
Immediate(r) ==
    /\ rpc[r] = "returned"
    /\ submitted = r
    /\ \A q \in Registered : rpc[q] = "returned"

\* C9 as stated: the get issued right after submit returned observes status
\* "processing".
C9_ImmediateGetProcessing ==
    \A r \in Slots :
        Immediate(r) =>
            api_ai_status(AI_JOBS, job_id[r]) = [code |-> 200, body |-> ProcessingEntry]

\* C9 as amended: the get issued right after submit returned never answers
\* 404; it observes status "processing", or the terminal entry when a
\* background task of that job id has already made its terminal write.
C9_ImmediateGetFindsEntry ==
    \A r \in Slots :
        Immediate(r) =>
            LET resp == api_ai_status(AI_JOBS, job_id[r])
            IN  /\ resp.code = 200
                /\ \/ resp.body = ProcessingEntry
                   \/ /\ resp.body.status \in Terminal
                      /\ \E q \in Registered :
                            job_id[q] = job_id[r] /\ tpc[q] = "done"

\* The immediate get of a job whose thread was faster than the client.
C9_Witness ==
    \E r \in Slots :
        /\ Immediate(r)
        /\ OwnId(r)
        /\ tpc[r] = "done"
        /\ api_ai_status(AI_JOBS, job_id[r]).body.status = "completed"

(* -------------------------------- C10 --------------------------------- *)

\* C10: the audit writes of a job may fail or succeed; either way a job on
\* a dict payload makes its terminal write, of status "completed" and never
\* "error", and two finished jobs on the same payload and the same tool
\* behaviour hold the same status and result.
C10_AuditFailureHarmless ==
    /\ \A r \in Slots :
         (tpc[r] = "done" /\ IsDict(data[r])) =>
            Wrote(r, "completed") /\ ~Wrote(r, "error")
    /\ \A r, q \in Slots :
         ( /\ tpc[r] = "done" /\ tpc[q] = "done"
           /\ data[r] = data[q]
           /\ LastWriter(r) /\ LastWriter(q) ) =>
            AI_JOBS[job_id[r]] = AI_JOBS[job_id[q]]

\* Two finished jobs on the same dict payload: the audit insert of one
\* succeeded and its status update failed, the audit insert of the other
\* failed; their entries are equal.
C10_Witness ==
    \E r, q \in Slots :
        /\ tpc[r] = "done" /\ tpc[q] = "done"
        /\ data[r] = data[q] /\ IsDict(data[r])
        /\ job_id[r] # job_id[q]
        /\ \E i \in DOMAIN prompt_history :
              /\ prompt_history[i].job_id = job_id[r]
              /\ prompt_history[i].job_status = "processing"
        /\ ~HasAuditRow(job_id[q])
        /\ AI_JOBS[job_id[r]] = AI_JOBS[job_id[q]]
        /\ AI_JOBS[job_id[r]].status = "completed"

(* -------------------------------- C11 --------------------------------- *)

\* A result of handle_ai_request: a boolean success, with output and raw
\* beside a true one and error beside a false one.
ResultShape(res) ==
    /\ "success" \in DOMAIN res
    /\ res.success \in BOOLEAN
    /\ IF res.success THEN {"output", "raw"} \subseteq DOMAIN res
       ELSE "error" \in DOMAIN res

\* C11 as stated: in every reachable state a registry entry has a result
\* field exactly when its status is not "processing", for completed and
\* error entries alike, and that result has the shape of ResultShape.
C11_ResultIffNotProcessing ==
    \A j \in DOMAIN AI_JOBS :
        /\ ("result" \in DOMAIN AI_JOBS[j]) <=> (AI_JOBS[j].status # "processing")
        /\ ("result" \in DOMAIN AI_JOBS[j]) => ResultShape(AI_JOBS[j].result)

\* C11: in every reachable state a registry entry has a result field exactly
\* when its status is "completed", and that result has a boolean success with
\* output and raw when it is true and error when it is false; an entry has an
\* error text of its own, and no result, exactly when its status is "error".
C11_ResultIffCompleted ==
    \A j \in DOMAIN AI_JOBS :
        /\ AI_JOBS[j].status \in {"processing", "completed", "error"}
        /\ ("result" \in DOMAIN AI_JOBS[j]) <=> (AI_JOBS[j].status = "completed")
        /\ ("error" \in DOMAIN AI_JOBS[j]) <=> (AI_JOBS[j].status = "error")
        /\ ("result" \in DOMAIN AI_JOBS[j]) => ResultShape(AI_JOBS[j].result)

\* The registry holds an error entry without a result and a completed entry
\* whose result is a success.
C11_Witness ==
    \E j, k \in DOMAIN AI_JOBS :
        /\ AI_JOBS[j].status = "error" /\ "result" \notin DOMAIN AI_JOBS[j]
        /\ AI_JOBS[k].status = "completed" /\ AI_JOBS[k].result.success

(* ------------------- handle_ai_request on its own --------------------- *)

\* The prompts and contexts of the payloads handle_ai_request is called on.
Prompts == {"", "shorten"}

Contexts == {"", "<h1>"}

\* The dict payloads: each key is there or not.
InvokePayloads ==
    { JsonObject(ks, IF "prompt" \in ks THEN p ELSE "",
                 IF "context" \in ks THEN c ELSE "") :
        ks \in SUBSET {"prompt", "context"}, p \in Prompts, c \in Contexts }

\* Every slot holds a dict payload; the tool behaves in one of its ways.
InitInvoke ==
    /\ AI_JOBS = [j \in {} |-> ProcessingEntry]
    /\ prompt_history = <<>>
    /\ tool \in ToolBehaviours
    /\ git_head = "1a2b3c4"
    /\ submitted = 0
    /\ rpc = [r \in Slots |-> "idle"]
    /\ job_id = [r \in Slots |-> NoJob]
    /\ data \in [Slots -> InvokePayloads]
    /\ tpc = [r \in Slots |-> "none"]
    /\ result = [r \in Slots |-> NoResult]
    /\ writes = [j \in JobIds |-> <<>>]
    /\ now = 0
    /\ response = NoResponse
    /\ AppIdle

\* handle_ai_request(data, None) (lines 110-172): db_path is None, nothing
\* is logged.
Invoke(r) ==
    /\ tpc[r] = "none"
    /\ result' = [result EXCEPT ![r] = handle_ai_request(data[r], tool)]
    /\ tpc' = [tpc EXCEPT ![r] = "invoked"]
    /\ UNCHANGED << AI_JOBS, prompt_history, tool, git_head, submitted, rpc, job_id,
                    data, writes >>
    /\ UNCHANGED site_vars

NextInvoke == \E r \in Slots : Invoke(r)

SpecInvoke == InitInvoke /\ [][NextInvoke]_vars

(* -------------------------------- C12 --------------------------------- *)

\* The instruction handle_ai_request passes to the tool on payload d.
ComposedPrompt(d) == full_prompt(DictGet(d, "prompt", ""), DictGet(d, "context", ""))

MaxAuditRows == 2

\* The clock stops here.
MaxClock == 2

\* The frame of a step of the store: the job core stands still.
CoreIdle ==
    /\ AI_JOBS = [j \in {} |-> ProcessingEntry]
    /\ tool = "ok"
    /\ submitted = 0
    /\ rpc = [r \in Slots |-> "idle"]
    /\ job_id = [r \in Slots |-> NoJob]
    /\ data = [r \in Slots |-> EmptyDict]
    /\ tpc = [r \in Slots |-> "none"]
    /\ result = [r \in Slots |-> NoResult]
    /\ writes = [j \in JobIds |-> <<>>]

core_vars == << AI_JOBS, tool, submitted, rpc, job_id, data, tpc, result, writes >>

\* A second passes.
Tick ==
    /\ now < MaxClock
    /\ now' = now + 1
    /\ UNCHANGED << app_vars, core_vars, prompt_history, git_head, response >>

\* log_prompt(db_path, prompt, context, job_id, status='processing') (lines
\* 61-71, called at line 117): the row is inserted with the hash get_git_hash
\* returns now, or the insert fails and the failure is swallowed.
LogPrompt(j) ==
    /\ Len(prompt_history) < MaxAuditRows
    /\ \/ prompt_history' =
            log_prompt(prompt_history, "shorten", "<h1>", j, "processing",
                       git_head, now)
       \/ UNCHANGED prompt_history
    /\ UNCHANGED << app_vars, core_vars, git_head, now, response >>

(* ------------------------ get_history, the list ----------------------- *)

\* The order of rows of equal timestamp is left open by ORDER BY timestamp
\* DESC; SQLite 3.40 returns them by ascending rowid.
TieOrders == {"rowid_asc", "rowid_desc"}

\* Row a comes before row b in the result of the SELECT of line 90.
Before(table, a, b, ties) ==
    \/ table[a].timestamp > table[b].timestamp
    \/ /\ table[a].timestamp = table[b].timestamp
       /\ IF ties = "rowid_asc" THEN table[a].id < table[b].id
          ELSE table[a].id > table[b].id

\* ORDER BY timestamp DESC.
OrderByTimestampDesc(table, ties) ==
    [ pos \in 1..Len(table) |->
        table[CHOOSE a \in DOMAIN table :
                 Cardinality({b \in DOMAIN table : Before(table, b, a, ties)}) = pos - 1] ]

Min(a, b) == IF a < b THEN a ELSE b

\* get_history (lines 83-96) where the store can be read: COUNT(*), then
\* LIMIT ? OFFSET ?; SQLite takes a negative LIMIT as no limit and a negative
\* OFFSET as 0.
get_history(table, limit, offset, ties) ==
    LET off == IF offset < 0 THEN 0 ELSE offset
        lim == IF limit < 0 THEN Len(table) ELSE limit
    IN  [ history |-> SubSeq(OrderByTimestampDesc(table, ties), off + 1,
                             Min(Len(table), off + lim)),
          total |-> Len(table) ]

\* GET /api/ai/history?page=&limit= (lines 227-239).
api_ai_history_route(table, page, limit, ties) ==
    LET offset == (page - 1) * limit
        res == get_history(table, limit, offset, ties)
    IN  [code |-> 200,
         body |-> [success |-> TRUE, history |-> res.history, total |-> res.total]]

\* int(request.args.get('page', 1)) and int(request.args.get('limit', 20)).
Pages == 1..3

Limits == {1, 2}

\* The route reads the table; its answer is api_ai_history_route.
History(page, limit) ==
    /\ prompt_history' = prompt_history
    /\ UNCHANGED << app_vars, core_vars, git_head, now, response >>

InitHistory ==
    /\ CoreIdle
    /\ prompt_history = <<>>
    /\ git_head \in GitHeads
    /\ now = 0
    /\ response = NoResponse
    /\ AppIdle

NextHistory ==
    \/ Tick
    \/ \E j \in JobIds : LogPrompt(j)
    \/ \E page \in Pages, limit \in Limits : History(page, limit)

SpecHistory == InitHistory /\ [][NextHistory]_vars

(* -------------------------------- C13 --------------------------------- *)

\* The rows from the latest created to the first created.
NewestFirst(table) == [pos \in 1..Len(table) |-> table[Len(table) - pos + 1]]

\* The rows of a sequence.
Range(seq) == {seq[i] : i \in DOMAIN seq}

\* C13 as stated: for any table contents the list is paginated newest first
\* with offset = (page-1)*limit: page p of limit n is exactly the records
\* (p-1)*n+1 to p*n in descending order of creation, consecutive pages
\* neither repeat nor skip a record, and total is the full row count
\* whatever the page and limit.
C13_PagesNewestFirst ==
    \A page \in Pages, limit \in Limits, ties \in TieOrders :
        LET body == api_ai_history_route(prompt_history, page, limit, ties).body
            n == Len(prompt_history)
        IN  /\ body.history =
                  SubSeq(NewestFirst(prompt_history), (page - 1) * limit + 1,
                         Min(n, page * limit))
            /\ body.total = n
            /\ \A i \in DOMAIN prompt_history :
                  Cardinality({ p \in 1..n :
                      prompt_history[i] \in
                        Range(api_ai_history_route(prompt_history, p, limit,
                                                   ties).body.history) }) = 1

(* ------------------- the writes of the audit store -------------------- *)

\* data.get('commit_hash') (line 244): the caller's hash, or None.
CommitHashes == {"9f8e7d6", Null}

\* <hist_id> of the URL: the ids of the rows there can be, and one beyond.
HistIds == 1..(MaxAuditRows + 1)

\* Job statuses process_ai_job writes (lines 181-182, 193-194).
AuditStatuses == {"completed", "error"}

\* update_history_commit answering whether a row was updated.
update_history_commit_rowcount(table, hist_id, commit_hash, ok) ==
    IF ok
    THEN [ table |-> [ i \in DOMAIN table |->
                         IF table[i].id = hist_id
                         THEN [table[i] EXCEPT !.git_hash_after = commit_hash]
                         ELSE table[i] ],
           ret |-> \E i \in DOMAIN table : table[i].id = hist_id ]
    ELSE [table |-> table, ret |-> FALSE]

\* update_history_commit (lines 98-108): the UPDATE, then True; False where
\* the store raised (ok is false).
update_history_commit(table, hist_id, commit_hash, ok) ==
    IF ok
    THEN [ table |-> [ i \in DOMAIN table |->
                         IF table[i].id = hist_id
                         THEN [table[i] EXCEPT !.git_hash_after = commit_hash]
                         ELSE table[i] ],
           ret |-> TRUE ]
    ELSE [table |-> table, ret |-> FALSE]

\* The answer of api_update_history_route (lines 246-248).
api_update_history_route(ret) ==
    IF ret THEN [code |-> 200, body |-> [success |-> TRUE]]
    ELSE [code |-> 500, body |-> [success |-> FALSE, error |-> "Update failed"]]

\* git breaks, or is repaired: get_git_hash returns something else.
GitMoves ==
    /\ \E g \in GitHeads \ {git_head} : git_head' = g
    /\ UNCHANGED << app_vars, core_vars, prompt_history, now, response >>

\* update_job_status(db_path, job_id, status) (lines 73-81).
UpdateJobStatus(j, status) ==
    /\ \/ prompt_history' = update_job_status(prompt_history, j, status)
       \/ UNCHANGED prompt_history
    /\ UNCHANGED << app_vars, core_vars, git_head, now, response >>

\* PUT /api/ai/history/<hist_id> (lines 241-248); `raised` records whether
\* the store operation raised.
UpdateCommit(hist_id, commit_hash) ==
    \E ok \in BOOLEAN :
        LET done == update_history_commit(prompt_history, hist_id, commit_hash, ok)
            answer == api_update_history_route(done.ret)
        IN  /\ prompt_history' = done.table
            /\ response' = [ route |-> "commit", hist_id |-> hist_id,
                             commit_hash |-> commit_hash, raised |-> ~ok,
                             code |-> answer.code, body |-> answer.body ]
            /\ UNCHANGED << app_vars, core_vars, git_head, now >>

InitAuditWrites ==
    /\ CoreIdle
    /\ prompt_history = <<>>
    /\ git_head \in GitHeads
    /\ now = 0
    /\ response = NoResponse
    /\ AppIdle

NextAuditWrites ==
    \/ GitMoves
    \/ \E j \in JobIds : LogPrompt(j)
    \/ \E j \in JobIds, status \in AuditStatuses : UpdateJobStatus(j, status)
    \/ \E hist_id \in HistIds, commit_hash \in CommitHashes :
          UpdateCommit(hist_id, commit_hash)

SpecAuditWrites == InitAuditWrites /\ [][NextAuditWrites]_vars

(* -------------------------------- C14 --------------------------------- *)

\* The ids of the rows of the audit table.
RowIds(table) == {table[i].id : i \in DOMAIN table}

\* C14: updateCommit on a record id that does not exist returns true, the
\* route answering 200 {success: true}, and leaves every audit record as it
\* was; it returns false, the route answering 500, only when the store
\* operation raises.
C14_UpdateCommitUnknownId ==
    [][ (response' # response /\ response'.route = "commit") =>
          /\ (response'.code # 200) => response'.raised
          /\ (response'.hist_id \notin RowIds(prompt_history) /\ ~response'.raised) =>
                /\ response'.code = 200
                /\ response'.body = [success |-> TRUE]
          /\ (response'.hist_id \notin RowIds(prompt_history)) =>
                prompt_history' = prompt_history ]_vars

\* The table has rows, and an update of a record id that is not there has
\* been answered 200 {success: true}.
C14_Witness ==
    /\ prompt_history # <<>>
    /\ response.route = "commit"
    /\ response.hist_id \notin RowIds(prompt_history)
    /\ ~response.raised
    /\ response.code = 200 /\ response.body.success

(* -------------------------------- C15 --------------------------------- *)

\* The rows a step has inserted or changed.
Written(i) == i \notin DOMAIN prompt_history \/ prompt_history'[i] # prompt_history[i]

\* C15 as stated: every write of the audit store, the append, the status
\* update and the commit update, captures the revision identifier that is
\* current at the write ("unknown" where the lookup fails): the row it wrote
\* holds what get_git_hash returns at that moment.
C15_EveryWriteCapturesRevision ==
    [][ \A i \in DOMAIN prompt_history' :
          Written(i) =>
             \/ prompt_history'[i].git_hash_before = git_head
             \/ prompt_history'[i].git_hash_after = git_head ]_vars

\* C15: of the writes of the audit store only the append captures the
\* current revision identifier, as git_hash_before, substituting "unknown"
\* when the lookup fails, and a failed lookup never fails the append; the
\* status update writes job_status alone and captures nothing, and the commit
\* update stores the hash its caller supplied as git_hash_after of the rows
\* of that id.
C15_OnlyAppendCapturesRevision ==
    [][ /\ Len(prompt_history') >= Len(prompt_history)
        /\ \A i \in DOMAIN prompt_history' \ DOMAIN prompt_history :
              /\ prompt_history'[i].git_hash_before = git_head
              /\ prompt_history'[i].git_hash_after = Null
        /\ \A i \in DOMAIN prompt_history :
              /\ prompt_history'[i].git_hash_before = prompt_history[i].git_hash_before
              /\ prompt_history'[i].git_hash_after # prompt_history[i].git_hash_after =>
                    /\ response'.route = "commit"
                    /\ response'.hist_id = prompt_history[i].id
                    /\ prompt_history'[i].git_hash_after = response'.commit_hash ]_vars

\* A row appended while the lookup failed holds "unknown"; another row was
\* appended under a hash, git has moved since, and the row has had its
\* status and its commit hash updated without taking the new identifier.
C15_Witness ==
    \E i, k \in DOMAIN prompt_history :
        /\ prompt_history[i].git_hash_before = "unknown"
        /\ prompt_history[k].git_hash_before = "1a2b3c4"
        /\ git_head = "unknown"
        /\ prompt_history[k].job_status = "completed"
        /\ prompt_history[k].git_hash_after = "9f8e7d6"

(* ------------------ the job core over a working store ----------------- *)

\* The runs of Spec in which every audit write succeeds: the insert of
\* log_prompt adds its row and the updates of update_job_status are made.
NextReliable ==
    \/ \E r \in Slots : Register(r)
    \/ \E r \in Slots : StartAndReturn(r)
    \/ \E r \in Slots :
          /\ HandleRequest(r)
          /\ IsDict(data[r]) => Len(prompt_history') = Len(prompt_history) + 1
    \/ \E r \in Slots :
          /\ UpdateStatus(r)
          /\ prompt_history' =
                update_job_status(prompt_history, job_id[r], AuditStatus(result[r]))
    \/ \E r \in Slots : Complete(r)
    \/ \E r \in Slots :
          /\ UpdateError(r)
          /\ prompt_history' = update_job_status(prompt_history, job_id[r], "error")
    \/ \E r \in Slots : CompleteError(r)
    \/ \E j \in PollIds : Poll(j)

SpecReliable == Init /\ [][NextReliable]_vars

(* -------------------------------- C16 --------------------------------- *)

\* The audit status that mirrors a terminal registry entry.
Mirror(entry) ==
    IF entry.status = "error" THEN "error"
    ELSE IF entry.result.success THEN "completed" ELSE "failed"

\* C16 as stated: where the audit writes succeed, in every reachable state
\* in which the registry entry of a job id is terminal, the audit record of
\* that job id is there and its job_status mirrors the entry: "completed" for
\* a success, "failed" for a completed entry whose result is a failure,
\* "error" for an error entry; a poller that sees a terminal entry never
\* finds the audit record at "processing".
C16_AuditMirrorsRegistry ==
    \A j \in DOMAIN AI_JOBS :
        AI_JOBS[j].status \in Terminal =>
            /\ HasAuditRow(j)
            /\ \A i \in DOMAIN prompt_history :
                  prompt_history[i].job_id = j =>
                     prompt_history[i].job_status = Mirror(AI_JOBS[j])

(* --------------------- app.py: captcha and contact -------------------- *)

\* app.py line 34, in seconds.
CAPTCHA_TIMEOUT == 600

\* random.randint(1, 10) (lines 258-259), cut down to its ends.
Dice == {1, 10}

\* data.get('website', '') (line 287).
Honeypots == {"", "http://spam"}

\* data.get('captcha_token', '') (line 289): a token, or none.
ContactTokens == CaptchaTokens \cup {""}

\* data.get('math_challenge', '') (line 288), as pieces of text.
MathAnswers == {<<" ", "2", "\n">>, <<"7">>}

\* del d[k], for a key that is there.
DictDel(d, k) == [x \in DOMAIN d \ {k} |-> d[x]]

\* The times of a run about a timeout: the start, a second later, and the
\* same after the timeout has passed once.
ClockValues(timeout) == {0, 1, timeout, timeout + 1}

\* Time passes: a second, or the timeout.
Elapse(d, timeout) ==
    /\ now + d \in ClockValues(timeout)
    /\ now' = now + d
    /\ UNCHANGED << app_vars, core_vars, prompt_history, git_head, response >>

\* The entry of a captcha is older than CAPTCHA_TIMEOUT (lines 268, 298).
CaptchaExpired(entry) == now - entry.timestamp > CAPTCHA_TIMEOUT

\* GET /api/captcha (lines 256-276): the token is drawn without a look at
\* the store; one call in eleven purges the expired entries.
GetCaptcha ==
    \E n1 \in Dice, n2 \in Dice, token \in CaptchaTokens, purge \in BOOLEAN :
        LET put == DictSet(CAPTCHA_SESSIONS, token,
                           [answer |-> ToString(n1 + n2), timestamp |-> now])
            keys_to_del == {k \in DOMAIN put : CaptchaExpired(put[k])}
        IN  /\ issued[token] < MaxCaptchas
            /\ CAPTCHA_SESSIONS' =
                  IF purge THEN [k \in DOMAIN put \ keys_to_del |-> put[k]] ELSE put
            /\ issued' = [issued EXCEPT ![token] = @ + 1]
            /\ UNCHANGED << messages, contacts, cpc, creq, stored_data, now, response,
                            admin_vars,
                    core_vars, prompt_history, git_head >>

\* Lines 280-295: the body is read; a filled honeypot, a missing token or a
\* token that is not in the store raises, which line 316 turns into a 500.
ContactCheck(c) ==
    /\ c = contacts + 1
    /\ c <= MaxContacts
    /\ cpc[c] = "idle"
    /\ \E honeypot \in Honeypots, token \in ContactTokens, math_ans \in MathAnswers :
         /\ creq' = [creq EXCEPT ![c] =
                        [ honeypot |-> honeypot, captcha_token |-> token,
                          math_ans |-> math_ans, fresh |-> FALSE,
                          took |-> FALSE ]]
         /\ cpc' = [cpc EXCEPT ![c] =
                       IF honeypot # "" THEN "failed"
                       ELSE IF token = "" \/ token \notin DOMAIN CAPTCHA_SESSIONS
                            THEN "failed"
                       ELSE "read"]
    /\ contacts' = c
    /\ UNCHANGED << CAPTCHA_SESSIONS, messages, stored_data, issued, now, response,
                    admin_vars,
                    core_vars, prompt_history, git_head >>

\* Lines 297-303: the entry is read (a KeyError if it has gone since line
\* 294), then its age and the answer are checked; fresh records that the
\* entry was not expired at the check.
ContactRead(c) ==
    /\ cpc[c] = "read"
    /\ IF creq[c].captcha_token \notin DOMAIN CAPTCHA_SESSIONS
       THEN /\ cpc' = [cpc EXCEPT ![c] = "failed"]
            /\ UNCHANGED << stored_data, creq >>
       ELSE LET entry == CAPTCHA_SESSIONS[creq[c].captcha_token]
            IN  /\ stored_data' = [stored_data EXCEPT ![c] = entry]
                /\ creq' = [creq EXCEPT ![c].fresh = ~CaptchaExpired(entry)]
                /\ cpc' = [cpc EXCEPT ![c] =
                              IF CaptchaExpired(entry) THEN "expire"
                              ELSE IF Join(strip(creq[c].math_ans)) # entry.answer
                                   THEN "failed"
                              ELSE "consume"]
    /\ UNCHANGED << CAPTCHA_SESSIONS, messages, contacts, issued, now, response,
                    admin_vars,
                    core_vars, prompt_history, git_head >>

\* Lines 299-300: the expired entry is deleted (a KeyError if it has gone)
\* and the request fails; took records that the request deleted the entry.
ContactExpire(c) ==
    /\ cpc[c] = "expire"
    /\ CAPTCHA_SESSIONS' =
          IF creq[c].captcha_token \in DOMAIN CAPTCHA_SESSIONS
          THEN DictDel(CAPTCHA_SESSIONS, creq[c].captcha_token)
          ELSE CAPTCHA_SESSIONS
    /\ creq' = [creq EXCEPT ![c].took = creq[c].captcha_token \in DOMAIN CAPTCHA_SESSIONS]
    /\ cpc' = [cpc EXCEPT ![c] = "failed"]
    /\ UNCHANGED << messages, contacts, stored_data, issued, now, response,
                    admin_vars,
                    core_vars, prompt_history, git_head >>

\* ContactConsume deleting with CAPTCHA_SESSIONS.pop(captcha_token, None).
ContactConsume_pop(c) ==
    /\ cpc[c] = "consume"
    /\ CAPTCHA_SESSIONS' =
          IF creq[c].captcha_token \in DOMAIN CAPTCHA_SESSIONS
          THEN DictDel(CAPTCHA_SESSIONS, creq[c].captcha_token)
          ELSE CAPTCHA_SESSIONS
    /\ creq' = [creq EXCEPT ![c].took = TRUE]
    /\ cpc' = [cpc EXCEPT ![c] = "insert"]
    /\ UNCHANGED << messages, contacts, stored_data, issued, now, response,
                    admin_vars,
                    core_vars, prompt_history, git_head >>

\* Line 305: del CAPTCHA_SESSIONS[captcha_token]; the KeyError of a token
\* that has gone is caught at line 316.
ContactConsume(c) ==
    /\ cpc[c] = "consume"
    /\ IF creq[c].captcha_token \in DOMAIN CAPTCHA_SESSIONS
       THEN /\ CAPTCHA_SESSIONS' = DictDel(CAPTCHA_SESSIONS, creq[c].captcha_token)
            /\ creq' = [creq EXCEPT ![c].took = TRUE]
            /\ cpc' = [cpc EXCEPT ![c] = "insert"]
       ELSE /\ UNCHANGED << CAPTCHA_SESSIONS, creq >>
            /\ cpc' = [cpc EXCEPT ![c] = "failed"]
    /\ UNCHANGED << messages, contacts, stored_data, issued, now, response,
                    admin_vars,
                    core_vars, prompt_history, git_head >>

\* Lines 307-314: the INSERT and the 200, or a failure of sqlite and the 500.
\* No row is deleted in a run of these requests, so the next id is the
\* length plus one.
ContactInsert(c) ==
    /\ cpc[c] = "insert"
    /\ \/ /\ messages' = Append(messages,
                                 [id |-> Len(messages) + 1, message |-> "hello"])
          /\ cpc' = [cpc EXCEPT ![c] = "done"]
       \/ /\ UNCHANGED messages
          /\ cpc' = [cpc EXCEPT ![c] = "failed"]
    /\ UNCHANGED << CAPTCHA_SESSIONS, contacts, creq, stored_data, issued, now,
                    response, admin_vars,
                    core_vars, prompt_history, git_head >>

InitContact ==
    /\ CoreIdle
    /\ prompt_history = <<>>
    /\ git_head = "1a2b3c4"
    /\ now = 0
    /\ response = NoResponse
    /\ AppIdle

NextContact ==
    \/ \E d \in {1, CAPTCHA_TIMEOUT} : Elapse(d, CAPTCHA_TIMEOUT)
    \/ GetCaptcha
    \/ \E c \in Contacts : ContactCheck(c)
    \/ \E c \in Contacts : ContactRead(c)
    \/ \E c \in Contacts : ContactExpire(c)
    \/ \E c \in Contacts : ContactConsume(c)
    \/ \E c \in Contacts : ContactInsert(c)

SpecContact == InitContact /\ [][NextContact]_vars

(* -------------------------------- C17 --------------------------------- *)

\* The contact requests that got past line 305 presenting token t.
Consumers(t) == {c \in Contacts : cpc[c] \in {"insert", "done"} /\ creq[c].captcha_token = t}

\* The answer of request c is the one of the entry it read.
AnswerMatches(c) == Join(strip(creq[c].math_ans)) = stored_data[c].answer

\* A message row is inserted only for an empty honeypot and an issued token
\* that was unexpired and whose answer matched; every issue of a token leads
\* to at most one inserted message, however the requests interleave.
SingleUse ==
    /\ \A c \in Contacts :
          cpc[c] \in {"insert", "done"} =>
             /\ creq[c].honeypot = ""
             /\ creq[c].captcha_token \in CaptchaTokens
             /\ issued[creq[c].captcha_token] > 0
             /\ creq[c].fresh
             /\ AnswerMatches(c)
    /\ \A t \in CaptchaTokens : Cardinality(Consumers(t)) <= issued[t]
    /\ Len(messages) = Cardinality({c \in Contacts : cpc[c] = "done"})

\* C17 as stated: SingleUse, and a request with a wrong answer inserts
\* nothing and leaves the token in place: only a request whose answer matches
\* takes the token out of the store.
C17_WrongAnswerKeepsToken ==
    /\ SingleUse
    /\ \A c \in Contacts : creq[c].took => AnswerMatches(c)

\* C17: SingleUse, and a request with a wrong answer inserts nothing and,
\* where the token it presents is not expired, leaves the token in place: a
\* request takes the token out of the store only when its answer matches the
\* unexpired entry, or when it found the entry expired, which it checks
\* before it looks at the answer.
C17_SingleUseCaptcha ==
    /\ SingleUse
    /\ \A c \in Contacts :
          creq[c].took => IF creq[c].fresh THEN AnswerMatches(c) ELSE cpc[c] = "failed"

\* Two requests presented the same token, issued once, with the matching
\* answer and read its entry before either deleted it: one inserted its
\* message and the other failed at the delete; a wrong answer on the token
\* would have failed without a delete.
C17_Witness ==
    \E c, q \in Contacts :
        /\ c # q
        /\ creq[c].captcha_token \in CaptchaTokens
        /\ creq[c].captcha_token = creq[q].captcha_token
        /\ issued[creq[c].captcha_token] = 1
        /\ creq[c].fresh /\ creq[q].fresh
        /\ AnswerMatches(c) /\ AnswerMatches(q)
        /\ creq[c].honeypot = "" /\ creq[q].honeypot = ""
        /\ cpc[c] = "done" /\ cpc[q] = "failed"
        /\ Len(messages) = 1

(* ------------------- app.py: sessions and /api/admin ------------------ *)

\* app.py line 31, in seconds.
SESSION_TIMEOUT == 3600

\* app.py line 20, the default.
ADMIN_PASSWORD == "admin123"

\* data.get('password', '') (line 103).
Passwords == {ADMIN_PASSWORD, "letmein"}

\* request.cookies.get('session_token') (line 59): a token api_login can
\* issue, no cookie, or a token api_login never issued.
Cookies == SessionTokens \cup {"", "f00d"}

\* The routes that call is_authenticated_check: /api/admin/verify (line 96)
\* and the seven that read or change the site (lines 114-252).
GuardedOps ==
    { "get_messages", "update_message", "delete_message", "get_files",
      "delete_file", "upload", "save_page" }

AdminOps == GuardedOps \cup {"verify"}

\* The frame of a step of app.py's admin side.
admin_frame ==
    << CAPTCHA_SESSIONS, contacts, cpc, creq, stored_data, issued, response,
       core_vars, prompt_history, git_head >>

\* The session of a cookie is there and not older than SESSION_TIMEOUT.
ValidSession(cookie) ==
    /\ cookie \in DOMAIN SESSIONS
    /\ now - SESSIONS[cookie] <= SESSION_TIMEOUT

\* POST /api/admin/login (lines 100-112): the right password stores a token
\* drawn without a look at the store; a wrong one is answered 401.
Login(password) ==
    /\ logins < MaxLogins
    /\ IF password = ADMIN_PASSWORD
       THEN \E token \in SessionTokens :
               /\ SESSIONS' = DictSet(SESSIONS, token, now)
               /\ granted' = granted \cup {token}
               /\ dead' = dead \ {token}
               /\ logins' = logins + 1
       ELSE UNCHANGED << SESSIONS, granted, dead, logins >>
    /\ UNCHANGED << admins, apc, areq, uploads, pages, backups, messages, now,
                    admin_frame >>

\* The request arrives and is_authenticated_check runs lines 59-61: no
\* cookie, or a cookie that is not in SESSIONS, returns False and the route
\* answers 401 (verify: authenticated false).  `valid` records whether the
\* request came with a valid session.
AuthLookup(a) ==
    /\ a = admins + 1
    /\ a <= MaxAdminRequests
    /\ apc[a] = "idle"
    /\ \E op \in AdminOps, cookie \in Cookies :
         /\ areq' = [areq EXCEPT ![a] =
                        [op |-> op, cookie |-> cookie, valid |-> ValidSession(cookie)]]
         /\ apc' = [apc EXCEPT ![a] =
                       IF cookie = "" \/ cookie \notin DOMAIN SESSIONS
                       THEN "unauthorized" ELSE "read"]
    /\ admins' = a
    /\ UNCHANGED << SESSIONS, logins, granted, dead, uploads, pages, backups,
                    messages, now, admin_frame >>

\* Line 62: SESSIONS[token] is read and compared with the clock; the
\* KeyError of a token deleted since line 60 leaves the route, and Flask
\* answers 500.
AuthRead(a) ==
    /\ apc[a] = "read"
    /\ apc' = [apc EXCEPT ![a] =
                  IF areq[a].cookie \notin DOMAIN SESSIONS THEN "crashed"
                  ELSE IF now - SESSIONS[areq[a].cookie] > SESSION_TIMEOUT
                       THEN "expire"
                  ELSE "refresh"]
    /\ UNCHANGED << SESSIONS, logins, granted, dead, admins, areq, uploads, pages,
                    backups, messages, now, admin_frame >>

\* Lines 63-64: del SESSIONS[token] and False, the route answering 401; or
\* the KeyError of a token another thread has deleted.
AuthExpire(a) ==
    /\ apc[a] = "expire"
    /\ IF areq[a].cookie \in DOMAIN SESSIONS
       THEN /\ SESSIONS' = DictDel(SESSIONS, areq[a].cookie)
            /\ dead' = dead \cup {areq[a].cookie}
            /\ apc' = [apc EXCEPT ![a] = "unauthorized"]
       ELSE /\ UNCHANGED << SESSIONS, dead >>
            /\ apc' = [apc EXCEPT ![a] = "crashed"]
    /\ UNCHANGED << logins, granted, admins, areq, uploads, pages, backups,
                    messages, now, admin_frame >>

\* Lines 65-66: SESSIONS[token] = time.time() and True.
AuthRefresh(a) ==
    /\ apc[a] = "refresh"
    /\ SESSIONS' = DictSet(SESSIONS, areq[a].cookie, now)
    /\ apc' = [apc EXCEPT ![a] = "authorized"]
    /\ UNCHANGED << logins, granted, dead, admins, areq, uploads, pages, backups,
                    messages, now, admin_frame >>

\* <msg_id>, <path:filename>, the uploaded file, and the page and content of
\* save-page.
MsgIds == {1}

FileNames == {"a.png"}

UploadNames == {"b.png"}

PageNames == {"index.html"}

Contents == {"<p>new</p>"}

\* The body of the route after is_authenticated_check has returned True
\* (lines 116-139, 145-157, 163-168, 174-185, 191-199, 205-218, 224-252).
AdminOp(a) ==
    /\ apc[a] = "authorized"
    /\ apc' = [apc EXCEPT ![a] = "done"]
    /\ CASE areq[a].op = "update_message" ->
              /\ \E msg_id \in MsgIds :
                    messages' =
                      [ i \in DOMAIN messages |->
                          IF messages[i].id = msg_id
                          THEN [messages[i] EXCEPT !.message = "edited"]
                          ELSE messages[i] ]
              /\ UNCHANGED << uploads, pages, backups >>
         [] areq[a].op = "delete_message" ->
              /\ \E msg_id \in MsgIds :
                    messages' = SelectSeq(messages, LAMBDA m : m.id # msg_id)
              /\ UNCHANGED << uploads, pages, backups >>
         [] areq[a].op = "delete_file" ->
              /\ \E filename \in FileNames : uploads' = uploads \ {filename}
              /\ UNCHANGED << messages, pages, backups >>
         [] areq[a].op = "upload" ->
              /\ \E safe_name \in UploadNames : uploads' = uploads \cup {safe_name}
              /\ UNCHANGED << messages, pages, backups >>
         [] areq[a].op = "save_page" ->
              /\ \E page_name \in PageNames, content \in Contents :
                    /\ pages' = DictSet(pages, page_name, content)
                    /\ \/ backups' =
                             IF page_name \in DOMAIN pages
                             THEN backups \cup {<<page_name, now>>} ELSE backups
                       \/ UNCHANGED backups
              /\ UNCHANGED << messages, uploads >>
         [] OTHER -> UNCHANGED << messages, uploads, pages, backups >>
    /\ UNCHANGED << SESSIONS, logins, granted, dead, admins, areq, now, admin_frame >>

\* A site in use: one message has been received, one file uploaded.
InitAdmin ==
    /\ CoreIdle
    /\ prompt_history = <<>>
    /\ git_head = "1a2b3c4"
    /\ now = 0
    /\ response = NoResponse
    /\ SessionsIdle
    /\ CaptchaIdle
    /\ messages = <<[id |-> 1, message |-> "hello"]>>
    /\ uploads = FileNames
    /\ pages = [p \in PageNames |-> "<p>old</p>"]
    /\ backups = {}

NextAdmin ==
    \/ \E d \in {1, SESSION_TIMEOUT} : Elapse(d, SESSION_TIMEOUT)
    \/ \E password \in Passwords : Login(password)
    \/ \E a \in Admins : AuthLookup(a)
    \/ \E a \in Admins : AuthRead(a)
    \/ \E a \in Admins : AuthExpire(a)
    \/ \E a \in Admins : AuthRefresh(a)
    \/ \E a \in Admins : AdminOp(a)

SpecAdmin == InitAdmin /\ [][NextAdmin]_vars

(* -------------------------------- C18 --------------------------------- *)

\* The check of request a finds its token fresh in this step (line 62).
FindsFresh(a) == apc[a] = "read" /\ apc'[a] = "refresh"

\* The check of request a returns True in this step (lines 65-66).
Accepts(a) == apc[a] = "refresh" /\ apc'[a] = "authorized"

\* The check of request a rejects its token for expiry in this step.
RejectsExpired(a) == apc[a] = "expire" /\ apc'[a] = "unauthorized"

\* C18: under any interleaving of requests carrying the same token, the
\* check accepts a token only if a login with the right password issued it
\* and its last accepted use, or its issue, is at most SESSION_TIMEOUT old;
\* an accepted check refreshes the timestamp; a check on an expired token
\* removes it and rejects; and a token rejected for expiry is never accepted
\* again (short of a new login issuing it).
C18_ExpiredNeverAcceptedAgain ==
    [][ \A a \in Admins :
          /\ FindsFresh(a) =>
                /\ areq[a].cookie \in granted
                /\ now - SESSIONS[areq[a].cookie] <= SESSION_TIMEOUT
          /\ Accepts(a) =>
                /\ areq[a].cookie \in granted
                /\ SESSIONS'[areq[a].cookie] = now
                /\ areq[a].cookie \notin dead
          /\ RejectsExpired(a) => areq[a].cookie \notin DOMAIN SESSIONS' ]_vars

(* -------------------------------- C19 --------------------------------- *)

\* Request a is one of the guarded routes and came without a valid session.
Uninvited(a) == areq[a].op \in GuardedOps /\ ~areq[a].valid

\* C19: every guarded /api/admin route called without a valid session
\* answers 401, never another answer, and its request leaves the messages
\* table, the upload directory, the page files and the backups as they were.
C19_UnauthorizedChangesNothing ==
    [][ \A a \in Admins :
          /\ Uninvited(a)' => apc'[a] \in {"read", "expire", "unauthorized"}
          /\ (Uninvited(a) /\ apc'[a] # apc[a]) =>
                UNCHANGED << messages, uploads, pages, backups >> ]_vars

====
